---- MODULE Spec2Model ----
(***************************************************************************)
(* A model of FReplicatorGeneratorManager (ReplicatorGeneratorManager.cpp) *)
(* and of the parts of FReplicatorCodeGenerator it drives.                 *)
(*                                                                         *)
(* Text (FString) is a sequence of one-character strings, so that file     *)
(* names, the regular expression of GetGeneratedTargetClasses and the JSON *)
(* text of the generated manifest are computed character by character.     *)
(* A file of the replicator storage is a pair <<directory, file name>>.    *)
(* An FDateTime is its tick count (100 ns) relative to the Unix epoch.     *)
(***************************************************************************)
EXTENDS Integers, Sequences, FiniteSets, TLC

VARIABLES
    files,          \* the generated-code files that exist: a set of <<dir, name>>
    baseDir,        \* the directory a relative file name resolves to
    dirs,           \* the manifest directories that exist
    manifestFiles,  \* manifest path -> its text, or NoFile
    pc,             \* position of GeneratedReplicators: "idle", "write", "done"
    targets,        \* TargetClasses of the run in flight
    genOk,          \* what CodeGenerator->Generate returned
    bundle,         \* ReplicatorCodeBundle.ReplicatorCodes: the generated identifiers
    idx,            \* index of the next artifact of the bundle to write
    attempts,       \* the artifact writes attempted so far: <<[name, ok], ...>>
    saveAttempted,  \* SaveGeneratedManifest has been called by the run
    Message,        \* the FString Message of the running operation
    errorLog,       \* what was logged at Error or Warning level
    runRet,         \* what GeneratedReplicators returned
    manifest0,      \* the text of the default manifest file when the run started
    IllegalClassNameIndex,
    TargetActorSameNameCounter,
    assigned,       \* the <<base name, generated identifier>> pairs handed out
    op,             \* the last operation of the manager that completed
    opArg,          \* its argument
    opRet,          \* its return value
    written,        \* whether its file write happened
    Result,         \* the FGeneratedManifest a load filled in
    filesBefore,    \* the files before the last removal
    lastSave,       \* manifest path -> the save calls since the file last changed
    absentTimes     \* the GeneratedTime values loaded from texts without that field

vars == <<files, baseDir, dirs, manifestFiles, pc, targets, genOk, bundle, idx,
          attempts, saveAttempted, Message, errorLog, runRet, manifest0,
          IllegalClassNameIndex, TargetActorSameNameCounter, assigned,
          op, opArg, opRet, written, Result, filesBefore, lastSave, absentTimes>>

(***************************************************************************)
(* Bounds of the model.                                                    *)
(***************************************************************************)
MaxClasses == 1     \* target classes of one run
MaxAssign == 3      \* names submitted to the deduplicator in one run
MaxRemove == 1      \* class names of one RemoveGeneratedReplicators call
MaxSeconds == 1     \* manifests are stamped within this many seconds of the epoch

(***************************************************************************)
(* Text.                                                                   *)
(***************************************************************************)
\* the content of a file that does not exist: no text, whose elements are characters
NoFile == <<"NoFile">>

Digits == <<"0", "1", "2", "3", "4", "5", "6", "7", "8", "9">>

Letters == {"A", "B", "C", "D", "E", "F", "G", "H", "I", "J", "K", "L", "M", "N", "O", "P",
            "Q", "R", "S", "T", "U", "V", "W", "X", "Y", "Z", "a", "b", "c", "d", "e", "f",
            "g", "h", "i", "j", "k", "l", "m", "n", "o", "p", "q", "r", "s", "t", "u", "v",
            "w", "x", "y", "z"}

\* \w of the regular expression: a letter, a digit or the underscore
IsWordChar(c) == c \in Letters \/ c = "_" \/ \E d \in 1..10 : Digits[d] = c

StartsWith(s, p) == Len(s) >= Len(p) /\ SubSeq(s, 1, Len(p)) = p
EndsWith(s, p) == Len(s) >= Len(p) /\ SubSeq(s, Len(s) - Len(p) + 1, Len(s)) = p

RECURSIVE NatToString(_)
NatToString(n) ==
    IF n < 10 THEN <<Digits[n + 1]>> ELSE NatToString(n \div 10) \o <<Digits[(n % 10) + 1]>>

\* printf("%d") / "%lld"
IntToString(n) == IF n < 0 THEN <<"-">> \o NatToString(0 - n) ELSE NatToString(n)

(***************************************************************************)
(* The naming convention of the generated files.                           *)
(***************************************************************************)
CodeGen_HeadFileExtension == <<".", "h">>
CodeGen_CppFileExtension == <<".", "c", "p", "p">>
CodeGen_ProtoFileExtension == <<".", "p", "r", "o", "t", "o">>
CodeGen_ProtoPbHeadExtension == <<".", "p", "b", ".", "h">>
CodeGen_ProtoPbCPPExtension == <<".", "p", "b", ".", "c", "c">>

ChanneldPrefix == <<"C", "h", "a", "n", "n", "e", "l", "d">>
ReplicatorSuffix == <<"R", "e", "p", "l", "i", "c", "a", "t", "o", "r">>

\* FString::Printf(TEXT("Channeld%sReplicator%s"), *ClassName, *Extension)
ReplicatorFileName(ClassName, Extension) ==
    ChanneldPrefix \o ClassName \o ReplicatorSuffix \o Extension

\* the five file names RemoveGeneratedReplicator builds from a class name
RemovedFileNames(ClassName) ==
    <<ReplicatorFileName(ClassName, CodeGen_CppFileExtension),
      ReplicatorFileName(ClassName, CodeGen_HeadFileExtension),
      ClassName \o CodeGen_ProtoFileExtension,
      ClassName \o CodeGen_ProtoPbHeadExtension,
      ClassName \o CodeGen_ProtoPbCPPExtension>>

\* the run-wide artifacts (the names stand for those of ReplicatorGeneratorDefinition.h)
GenManager_TypeDefinitionHeadFile == <<"T", "y", "p", "e", "s", ".", "h">>
GenManager_TypeDefinitionCppFile == <<"T", "y", "p", "e", "s", ".", "c", "p", "p">>
GenManager_RepRegistrationHeadFile == <<"R", "e", "g", ".", "h">>
GenManager_GlobalStructHeaderFile == <<"S", "t", "r", "u", "c", "t", ".", "h">>
GenManager_GlobalStructProtoFile == <<"s", "t", "r", "u", "c", "t">> \o CodeGen_ProtoFileExtension
DefaultModuleName == <<"M">>
ChannelDataPrefix == <<"C", "h", "a", "n", "n", "e", "l", "D", "a", "t", "a", "_">>
ChannelDataHeadFile == ChannelDataPrefix \o DefaultModuleName \o CodeGen_HeadFileExtension
ChannelDataProtoFile == ChannelDataPrefix \o DefaultModuleName \o CodeGen_ProtoFileExtension

\* the directories
ReplicatorStorageDir == "GeneratedCodeDir"
ProcessDir == "ProcessDir"
Dirs == {ReplicatorStorageDir, ProcessDir}

\* the file names of one FReplicatorCode, in the order GeneratedReplicators writes them
ReplicatorCodeFiles(N) ==
    <<ReplicatorFileName(N, CodeGen_HeadFileExtension),
      ReplicatorFileName(N, CodeGen_CppFileExtension),
      N \o CodeGen_ProtoFileExtension>>

RECURSIVE AllReplicatorCodeFiles(_)
AllReplicatorCodeFiles(codes) ==
    IF codes = << >> THEN << >>
    ELSE ReplicatorCodeFiles(Head(codes)) \o AllReplicatorCodeFiles(Tail(codes))

\* every file GeneratedReplicators writes for a bundle, in the order of its statements
ArtifactFiles(codes) ==
    <<GenManager_TypeDefinitionHeadFile, GenManager_TypeDefinitionCppFile>>
    \o AllReplicatorCodeFiles(codes)
    \o <<GenManager_RepRegistrationHeadFile,
         GenManager_GlobalStructHeaderFile, GenManager_GlobalStructProtoFile,
         ChannelDataHeadFile, ChannelDataProtoFile>>

(***************************************************************************)
(* FReplicatorCodeGenerator: name deduplication and assembly.              *)
(***************************************************************************)
IsDigit(c) == \E d \in 1..10 : Digits[d] = c

\* a class name that can be used as an identifier of the generated code
IsCompilableClassName(name) ==
    /\ Len(name) > 0
    /\ \A i \in 1..Len(name) : IsWordChar(name[i])
    /\ ~IsDigit(name[1])

IllegalNamePrefix == <<"_", "N">>

\* the generated identifier of a class named base, and the counters after it
AssignName(base, index, counter) ==
    LET legal == IsCompilableClassName(base)
        index1 == IF legal THEN index ELSE index + 1
        name == IF legal THEN base ELSE IllegalNamePrefix \o IntToString(index1)
    IN  IF name \in DOMAIN counter
        THEN [name |-> name \o <<"_">> \o IntToString(counter[name]),
              index |-> index1,
              counter |-> [counter EXCEPT ![name] = @ + 1]]
        ELSE [name |-> name, index |-> index1, counter |-> (name :> 1) @@ counter]

NoCounter == [n \in {} |-> 0]

\* CreateDecorateActor of one class: "Ignored", "HeaderNotFound" or "Ok"
CreateDecorateActor(class) ==
    IF class.ignored THEN "Ignored"
    ELSE IF ~class.hasHeader THEN "HeaderNotFound"
    ELSE "Ok"

\* Generate: the classes in order; ignored classes are skipped, a class without header
\* aborts. st = [ok, codes, index, counter, assigned]
RECURSIVE GenerateFrom(_, _)
GenerateFrom(classes, st) ==
    IF classes = << >> THEN st
    ELSE LET class == Head(classes)
             how == CreateDecorateActor(class)
         IN  IF how = "Ignored" THEN GenerateFrom(Tail(classes), st)
             ELSE IF how = "HeaderNotFound" THEN [st EXCEPT !.ok = FALSE]
             ELSE LET a == AssignName(class.name, st.index, st.counter)
                  IN  GenerateFrom(Tail(classes),
                          [ok |-> TRUE,
                           codes |-> Append(st.codes, a.name),
                           index |-> a.index,
                           counter |-> a.counter,
                           assigned |-> Append(st.assigned, <<class.name, a.name>>)])

Generate(TargetActors, index, counter) ==
    GenerateFrom(TargetActors,
        [ok |-> TRUE, codes |-> << >>, index |-> index, counter |-> counter,
         assigned |-> << >>])

(***************************************************************************)
(* FDateTime and the JSON text of the generated manifest.                  *)
(***************************************************************************)
TicksPerSecond == 10000000

\* int64 division of C++: towards zero
TruncDiv(a, b) == IF a >= 0 THEN a \div b ELSE 0 - ((0 - a) \div b)

\* FDateTime::ToUnixTimestamp: (Ticks - FDateTime(1970, 1, 1).Ticks) / TicksPerSecond
ToUnixTimestamp(ticks) == TruncDiv(ticks, TicksPerSecond)

\* FDateTime::FromUnixTimestamp: FDateTime(1970, 1, 1) + FTimespan(UnixTime * TicksPerSecond)
FromUnixTimestamp(UnixTime) == UnixTime * TicksPerSecond

\* TJsonWriter::WriteStringValue: the text between quotes, with its escapes
RECURSIVE EscapeJsonString(_)
EscapeJsonString(s) ==
    IF s = << >> THEN << >>
    ELSE LET c == Head(s)
             e == IF c = "\"" THEN <<"\\", "\"">>
                  ELSE IF c = "\\" THEN <<"\\", "\\">>
                  ELSE IF c = "\n" THEN <<"\\", "n">>
                  ELSE IF c = "\t" THEN <<"\\", "t">>
                  ELSE <<c>>
         IN  e \o EscapeJsonString(Tail(s))

JsonQuoted(s) == <<"\"">> \o EscapeJsonString(s) \o <<"\"">>

GeneratedTimeField == <<"G", "e", "n", "e", "r", "a", "t", "e", "d", "T", "i", "m", "e">>
ProtoPackageNameField ==
    <<"P", "r", "o", "t", "o", "P", "a", "c", "k", "a", "g", "e", "N", "a", "m", "e">>

\* a manifest text put together without escaping the package name
ManifestToJsonUnescaped(Manifest) ==
    <<"{", "\n", "\t">>
    \o JsonQuoted(GeneratedTimeField) \o <<":", " ">>
    \o IntToString(ToUnixTimestamp(Manifest.GeneratedTime))
    \o <<",", "\n", "\t">>
    \o JsonQuoted(ProtoPackageNameField) \o <<":", " ">>
    \o <<"\"">> \o Manifest.ProtoPackageName \o <<"\"">>
    \o <<"\n", "}">>

\* the text SaveGeneratedManifest builds with the (pretty printing) JSON writer
ManifestToJson(Manifest) ==
    <<"{", "\n", "\t">>
    \o JsonQuoted(GeneratedTimeField) \o <<":", " ">>
    \o IntToString(ToUnixTimestamp(Manifest.GeneratedTime))
    \o <<",", "\n", "\t">>
    \o JsonQuoted(ProtoPackageNameField) \o <<":", " ">>
    \o JsonQuoted(Manifest.ProtoPackageName)
    \o <<"\n", "}">>

IsWhitespace(c) == c \in {" ", "\t", "\n", "\r"}

RECURSIVE SkipWhitespace(_, _)
SkipWhitespace(s, i) ==
    IF i <= Len(s) /\ IsWhitespace(s[i]) THEN SkipWhitespace(s, i + 1) ELSE i

ParseError == [ok |-> FALSE, type |-> "None", value |-> 0, next |-> 0]

\* the characters of a JSON string after its opening quote, up to the closing one
RECURSIVE ReadStringBody(_, _, _)
ReadStringBody(s, i, acc) ==
    IF i > Len(s) THEN ParseError
    ELSE IF s[i] = "\"" THEN [ok |-> TRUE, type |-> "String", value |-> acc, next |-> i + 1]
    ELSE IF s[i] = "\\"
         THEN IF i + 1 > Len(s) THEN ParseError
              ELSE IF s[i + 1] \in {"\"", "\\", "/"}
                   THEN ReadStringBody(s, i + 2, Append(acc, s[i + 1]))
              ELSE IF s[i + 1] = "n" THEN ReadStringBody(s, i + 2, Append(acc, "\n"))
              ELSE IF s[i + 1] = "t" THEN ReadStringBody(s, i + 2, Append(acc, "\t"))
              ELSE ParseError
    ELSE ReadStringBody(s, i + 1, Append(acc, s[i]))

ReadString(s, i) ==
    IF i <= Len(s) /\ s[i] = "\"" THEN ReadStringBody(s, i + 1, << >>) ELSE ParseError

DigitValue(c) == CHOOSE d \in 0..9 : Digits[d + 1] = c

RECURSIVE ReadDigits(_, _, _)
ReadDigits(s, i, acc) ==
    IF i <= Len(s) /\ IsDigit(s[i]) THEN ReadDigits(s, i + 1, acc * 10 + DigitValue(s[i]))
    ELSE [ok |-> TRUE, type |-> "Number", value |-> acc, next |-> i]

\* a JSON number without fraction or exponent
ReadNumber(s, i) ==
    IF i <= Len(s) /\ s[i] = "-"
    THEN IF i + 1 <= Len(s) /\ IsDigit(s[i + 1])
         THEN LET r == ReadDigits(s, i + 1, 0) IN [r EXCEPT !.value = 0 - r.value]
         ELSE ParseError
    ELSE IF i <= Len(s) /\ IsDigit(s[i]) THEN ReadDigits(s, i, 0)
    ELSE ParseError

ReadValue(s, i) ==
    IF i <= Len(s) /\ s[i] = "\"" THEN ReadString(s, i) ELSE ReadNumber(s, i)

NoFields == [k \in {} |-> 0]

\* the members of an object from position i (after "{" or ","), then "}" and the end
RECURSIVE ReadMembers(_, _, _)
ReadMembers(s, i, fields) ==
    LET k == ReadString(s, SkipWhitespace(s, i))
        c == SkipWhitespace(s, k.next)
        v == ReadValue(s, SkipWhitespace(s, c + 1))
        e == SkipWhitespace(s, v.next)
        got == (k.value :> [type |-> v.type, value |-> v.value]) @@ fields
    IN  IF ~k.ok \/ c > Len(s) \/ s[c] # ":" THEN [ok |-> FALSE, fields |-> fields]
        ELSE IF ~v.ok \/ e > Len(s) THEN [ok |-> FALSE, fields |-> fields]
        ELSE IF s[e] = "," THEN ReadMembers(s, e + 1, got)
        ELSE IF s[e] = "}" /\ SkipWhitespace(s, e + 1) > Len(s)
             THEN [ok |-> TRUE, fields |-> got]
        ELSE [ok |-> FALSE, fields |-> fields]

\* FJsonSerializer::Deserialize of a root object
Deserialize(Json) ==
    LET b == SkipWhitespace(Json, 1)
        m == SkipWhitespace(Json, b + 1)
    IN  IF b > Len(Json) \/ Json[b] # "{" THEN [ok |-> FALSE, fields |-> NoFields]
        ELSE IF m <= Len(Json) /\ Json[m] = "}"
             THEN [ok |-> SkipWhitespace(Json, m + 1) > Len(Json), fields |-> NoFields]
        ELSE ReadMembers(Json, b + 1, NoFields)

\* whether a text is a number the engine parses from a string value
IsNumericString(s) ==
    LET r == ReadNumber(s, 1) IN r.ok /\ r.next = Len(s) + 1

\* FJsonObject::TryGetNumberField: [ok, value]; nothing is assigned when it fails
TryGetNumberField(RootObject, FieldName) ==
    IF FieldName \notin DOMAIN RootObject THEN [ok |-> FALSE, value |-> 0]
    ELSE LET f == RootObject[FieldName]
         IN  IF f.type = "Number" THEN [ok |-> TRUE, value |-> f.value]
             ELSE IF IsNumericString(f.value)
                  THEN [ok |-> TRUE, value |-> ReadNumber(f.value, 1).value]
             ELSE [ok |-> FALSE, value |-> 0]

\* FJsonObject::TryGetStringField
TryGetStringField(RootObject, FieldName) ==
    IF FieldName \notin DOMAIN RootObject THEN [ok |-> FALSE, value |-> << >>]
    ELSE LET f == RootObject[FieldName]
         IN  IF f.type = "String" THEN [ok |-> TRUE, value |-> f.value]
             ELSE [ok |-> TRUE, value |-> IntToString(f.value)]

(***************************************************************************)
(* The manifest store.                                                     *)
(***************************************************************************)
GenManager_IntermediateDir == "IntermediateDir"
ManifestDirs == {GenManager_IntermediateDir}
ManifestFileName == <<"m", ".", "j", "s", "o", "n">>
GenManager_GeneratedManifestFilePath == <<GenManager_IntermediateDir, ManifestFileName>>
ManifestPaths == {<<d, ManifestFileName>> : d \in ManifestDirs}
GenManager_DefaultProtoPackageName == <<"p", "k", "g">>

\* FPaths::GetPath
GetPath(Filename) == Filename[1]

NoMessage == ""
DirMissingMessage == "Unable to find the directory of GeneratedManifest"
SaveFailedMessage == "Unable to save GeneratedManifest"
LoadFailedMessage == "Unable to load GeneratedManifest"
MalformedMessage == "GeneratedManifest is malformed"

\* EnsureReplicatorGeneratedIntermediateDir; MakeDirectory succeeds or not
EnsureReplicatorGeneratedIntermediateDir(ds, bMade) ==
    IF GenManager_IntermediateDir \in ds THEN ds
    ELSE IF bMade THEN ds \cup {GenManager_IntermediateDir} ELSE ds

\* SaveGeneratedManifest(Manifest, Filename, Message); bSaved is what
\* FFileHelper::SaveStringToFile returns
SaveGeneratedManifest(Manifest, Filename, msg, ds, mf, bSaved) ==
    IF GetPath(Filename) \notin ds
    THEN [ret |-> FALSE, Message |-> DirMissingMessage, manifestFiles |-> mf,
          written |-> FALSE]
    ELSE IF bSaved
         THEN [ret |-> FALSE, Message |-> SaveFailedMessage,
               manifestFiles |-> [mf EXCEPT ![Filename] = ManifestToJson(Manifest)],
               written |-> TRUE]
         ELSE [ret |-> TRUE, Message |-> msg, manifestFiles |-> mf, written |-> FALSE]

\* LoadLatestGeneratedManifest(Filename, Result, Message) on a freshly constructed
\* Result; garbage is the value the uninitialized double GeneratedTime holds
LoadLatestGeneratedManifest(Filename, msg, mf, garbage) ==
    IF mf[Filename] = NoFile
    THEN [ret |-> FALSE, Message |-> LoadFailedMessage, warnings |-> << >>,
          GeneratedTime |-> 0, ProtoPackageName |-> << >>]
    ELSE LET root == Deserialize(mf[Filename])
             t == TryGetNumberField(root.fields, GeneratedTimeField)
             n == TryGetStringField(root.fields, ProtoPackageNameField)
         IN  IF ~root.ok
             THEN [ret |-> FALSE, Message |-> MalformedMessage, warnings |-> << >>,
                   GeneratedTime |-> 0, ProtoPackageName |-> << >>]
             ELSE [ret |-> TRUE, Message |-> msg,
                   warnings |->
                       (IF t.ok THEN << >> ELSE <<"Unable to find field 'GeneratedTime'">>)
                       \o (IF n.ok THEN << >>
                           ELSE <<"Unable to find field 'ProtoPackageName'">>),
                   GeneratedTime |-> FromUnixTimestamp(IF t.ok THEN t.value ELSE garbage),
                   ProtoPackageName |-> IF n.ok THEN n.value ELSE << >>]

(***************************************************************************)
(* The inputs of the operations.                                           *)
(***************************************************************************)
SeqsUpTo(S, n) == UNION {[1..k -> S] : k \in 0..n}

NameA == <<"A">>
NameB == <<"B">>

\* the classes a run is asked to generate: found, on the ignore list, or without header
TargetClassChoices ==
    {[name |-> NameA, ignored |-> FALSE, hasHeader |-> TRUE],
     [name |-> NameA, ignored |-> TRUE, hasHeader |-> TRUE],
     [name |-> NameA, ignored |-> FALSE, hasHeader |-> FALSE]}

TargetClassLists == SeqsUpTo(TargetClassChoices, MaxClasses)

\* FDateTime::Now() of a run
NowChoices == {k * TicksPerSecond + 1 : k \in 1..MaxSeconds}

RemoveNameLists == SeqsUpTo({NameA, NameB}, MaxRemove) \ {<< >>}

\* the files a complete earlier generation and compilation of class A left
EarlierFilesOfA ==
    {<<ReplicatorStorageDir, RemovedFileNames(NameA)[i]>> : i \in 1..5}
    \cup {<<ReplicatorStorageDir, GenManager_RepRegistrationHeadFile>>,
          <<ProcessDir, ReplicatorFileName(NameA, CodeGen_HeadFileExtension)>>}

InitialFileSystems == {{}, EarlierFilesOfA}

UnsetManifest == [GeneratedTime |-> 0, ProtoPackageName |-> << >>]
NoSaves == [p \in ManifestPaths |-> {}]

(***************************************************************************)
(* GeneratedReplicators, statement by statement.                           *)
(***************************************************************************)
\* a run that saves the manifest before the channel data files are written
WritePhaseDoneEarly == idx > Len(ArtifactFiles(bundle)) - 2

\* the statements that write the artifacts are done: the manifest is saved next
WritePhaseDone == idx > Len(ArtifactFiles(bundle))

\* WriteCodeFile: FFileHelper::SaveStringToFile succeeds or not; its result is
\* returned and ResultMessage is left alone
WriteCodeFile(FilePath, fs, bSuccess) == IF bSuccess THEN fs \cup {FilePath} ELSE fs

\* lines 88-105: the call of Generate, whose result is not looked at
GeneratedReplicatorsBegin ==
    /\ pc = "idle"
    /\ op = "None"
    /\ \E T \in TargetClassLists :
         LET g == Generate(T, IllegalClassNameIndex, TargetActorSameNameCounter)
         IN  /\ targets' = T
             /\ genOk' = g.ok
             /\ \E kept \in 0..Len(g.codes) :
                  /\ g.ok => kept = Len(g.codes)
                  /\ bundle' = SubSeq(g.codes, 1, kept)
             /\ IllegalClassNameIndex' = g.index
             /\ TargetActorSameNameCounter' = g.counter
             /\ assigned' = assigned \o g.assigned
    /\ pc' = "write"
    /\ idx' = 1
    /\ attempts' = << >>
    /\ saveAttempted' = FALSE
    /\ Message' = NoMessage
    /\ manifest0' = manifestFiles[GenManager_GeneratedManifestFilePath]
    /\ UNCHANGED <<files, baseDir, dirs, manifestFiles, errorLog, runRet, op, opArg,
                   opRet, written, Result, filesBefore, lastSave, absentTimes>>

\* lines 107-138: one WriteCodeFile / WriteProtoFile statement
WriteArtifact ==
    /\ pc = "write"
    /\ ~WritePhaseDone
    /\ \E bSuccess \in BOOLEAN :
         LET name == ArtifactFiles(bundle)[idx]
         IN  /\ files' = WriteCodeFile(<<ReplicatorStorageDir, name>>, files, bSuccess)
             /\ attempts' = Append(attempts, [name |-> name, ok |-> bSuccess])
    /\ idx' = idx + 1
    /\ UNCHANGED <<baseDir, dirs, manifestFiles, pc, targets, genOk, bundle, saveAttempted,
                   Message, errorLog, runRet, manifest0, IllegalClassNameIndex,
                   TargetActorSameNameCounter, assigned, op, opArg, opRet, written,
                   Result, filesBefore, lastSave, absentTimes>>

\* lines 147-157: the manifest is saved and the run returns
SaveManifestAndReturn ==
    /\ pc = "write"
    /\ WritePhaseDone
    /\ \E now \in NowChoices, bMade \in BOOLEAN, bSaved \in BOOLEAN :
         LET Manifest == [GeneratedTime |-> now,
                          ProtoPackageName |-> GenManager_DefaultProtoPackageName]
             ds == EnsureReplicatorGeneratedIntermediateDir(dirs, bMade)
             r == SaveGeneratedManifest(Manifest, GenManager_GeneratedManifestFilePath,
                                        Message, ds, manifestFiles, bSaved)
         IN  /\ dirs' = ds
             /\ manifestFiles' = r.manifestFiles
             /\ Message' = r.Message
             /\ written' = r.written
             /\ errorLog' = IF r.ret
                            THEN Append(errorLog, "Failed to save the generated manifest file")
                            ELSE errorLog
             /\ runRet' = ~r.ret
             /\ lastSave' = [lastSave EXCEPT ![GenManager_GeneratedManifestFilePath] =
                                IF GenManager_IntermediateDir \in ds
                                THEN {[Manifest |-> Manifest, written |-> r.written]}
                                ELSE @]
    /\ saveAttempted' = TRUE
    /\ pc' = "done"
    /\ UNCHANGED <<files, baseDir, targets, genOk, bundle, idx, attempts, manifest0,
                   IllegalClassNameIndex, TargetActorSameNameCounter, assigned, op, opArg,
                   opRet, Result, filesBefore, absentTimes>>

(***************************************************************************)
(* Removal and enumeration of the generated files.                         *)
(***************************************************************************)
\* IPlatformFile::DeleteFile of a file name without directory: the name resolves
\* against the directory of the process; a missing file is no error
DeleteFile(Filename, fs, base) == fs \ {<<base, Filename>>}

RemoveGeneratedReplicator(ClassName, fs, base) ==
    LET n == RemovedFileNames(ClassName)
    IN  DeleteFile(n[5], DeleteFile(n[4], DeleteFile(n[3],
            DeleteFile(n[2], DeleteFile(n[1], fs, base), base), base), base), base)

RECURSIVE RemoveGeneratedReplicators(_, _, _)
RemoveGeneratedReplicators(ClassNames, fs, base) ==
    IF ClassNames = << >> THEN fs
    ELSE RemoveGeneratedReplicators(Tail(ClassNames),
             RemoveGeneratedReplicator(Head(ClassNames), fs, base), base)

\* IFileManager::FindFiles(Result, Directory, Extension): the names in the directory
FindFiles(fs, Directory, Extension) ==
    {f[2] : f \in {g \in fs : g[1] = Directory /\ EndsWith(g[2], Extension)}}

\* ^Channeld(\w+)Replicator\.h$
RegexSuffix == ReplicatorSuffix \o <<".", "h">>
CaptureGroup(HeadFile) ==
    SubSeq(HeadFile, Len(ChanneldPrefix) + 1, Len(HeadFile) - Len(RegexSuffix))
RegexMatches(HeadFile) ==
    /\ StartsWith(HeadFile, ChanneldPrefix)
    /\ EndsWith(HeadFile, RegexSuffix)
    /\ Len(HeadFile) > Len(ChanneldPrefix) + Len(RegexSuffix)
    /\ \A i \in 1..Len(CaptureGroup(HeadFile)) : IsWordChar(CaptureGroup(HeadFile)[i])

GetGeneratedTargetClasses(fs) ==
    {CaptureGroup(h) :
        h \in {f \in FindFiles(fs, ReplicatorStorageDir, CodeGen_HeadFileExtension) :
                  RegexMatches(f)}}

NoRun == pc \in {"idle", "done"}

RemoveReplicators ==
    /\ NoRun
    /\ \E ClassNames \in RemoveNameLists :
         /\ files' = RemoveGeneratedReplicators(ClassNames, files, baseDir)
         /\ opArg' = ClassNames
    /\ op' = "Remove"
    /\ filesBefore' = files
    /\ UNCHANGED <<baseDir, dirs, manifestFiles, pc, targets, genOk, bundle, idx, attempts,
                   saveAttempted, Message, errorLog, runRet, manifest0,
                   IllegalClassNameIndex, TargetActorSameNameCounter, assigned, opRet,
                   written, Result, lastSave, absentTimes>>

EnumerateTargetClasses ==
    /\ NoRun
    /\ op' = "Enumerate"
    /\ opRet' = GetGeneratedTargetClasses(files)
    /\ UNCHANGED <<files, baseDir, dirs, manifestFiles, pc, targets, genOk, bundle, idx,
                   attempts, saveAttempted, Message, errorLog, runRet, manifest0,
                   IllegalClassNameIndex, TargetActorSameNameCounter, assigned, opArg,
                   written, Result, filesBefore, lastSave, absentTimes>>

(***************************************************************************)
(* Specifications.  Spec is one run of GeneratedReplicators; SpecFiles     *)
(* adds the removals and enumerations before and after it.                 *)
(***************************************************************************)
EarlierManifest ==
    ManifestToJson([GeneratedTime |-> 1,
                    ProtoPackageName |-> GenManager_DefaultProtoPackageName])

InitCommon ==
    /\ pc = "idle"
    /\ targets = << >>
    /\ genOk = TRUE
    /\ bundle = << >>
    /\ idx = 1
    /\ attempts = << >>
    /\ saveAttempted = FALSE
    /\ Message = NoMessage
    /\ errorLog = << >>
    /\ runRet = TRUE
    /\ IllegalClassNameIndex = 0
    /\ TargetActorSameNameCounter = NoCounter
    /\ assigned = << >>
    /\ op = "None"
    /\ opArg = << >>
    /\ opRet = FALSE
    /\ written = FALSE
    /\ Result = UnsetManifest
    /\ lastSave = NoSaves
    /\ absentTimes = {}

\* the default manifest is absent (with or without its directory) or left by a run
InitManifestOfEarlierRun ==
    /\ \E present \in BOOLEAN, text \in {NoFile, EarlierManifest} :
         /\ ~present => text = NoFile
         /\ dirs = IF present THEN {GenManager_IntermediateDir} ELSE {}
         /\ manifestFiles = [p \in ManifestPaths |->
                               IF p = GenManager_GeneratedManifestFilePath
                               THEN text ELSE NoFile]
    /\ manifest0 = manifestFiles[GenManager_GeneratedManifestFilePath]

Init ==
    /\ InitCommon
    /\ InitManifestOfEarlierRun
    /\ files = {}
    /\ filesBefore = files
    /\ baseDir = ProcessDir

Next ==
    \/ GeneratedReplicatorsBegin
    \/ WriteArtifact
    \/ SaveManifestAndReturn

Spec == Init /\ [][Next]_vars

InitFiles ==
    /\ InitCommon
    /\ InitManifestOfEarlierRun
    /\ files \in InitialFileSystems
    /\ filesBefore = files
    /\ baseDir \in Dirs

NextFiles ==
    \/ GeneratedReplicatorsBegin
    \/ WriteArtifact
    \/ SaveManifestAndReturn
    \/ RemoveReplicators
    \/ EnumerateTargetClasses

SpecFiles == InitFiles /\ [][NextFiles]_vars

(***************************************************************************)
(* SpecDedup: the names CreateDecorateActor hands out in one run.          *)
(***************************************************************************)
BaseNames == {NameA, NameB, NameA \o <<"_", "1">>, << >>, <<"A", "-">>}

\* CreateDecorateActor with bIncrementIfSameName, of a class that is generated
AssignNext ==
    /\ pc = "idle"
    /\ Len(assigned) < MaxAssign
    /\ \E base \in BaseNames :
         LET a == AssignName(base, IllegalClassNameIndex, TargetActorSameNameCounter)
         IN  /\ IllegalClassNameIndex' = a.index
             /\ TargetActorSameNameCounter' = a.counter
             /\ assigned' = Append(assigned, <<base, a.name>>)
    /\ UNCHANGED <<files, baseDir, dirs, manifestFiles, pc, targets, genOk, bundle, idx,
                   attempts, saveAttempted, Message, errorLog, runRet, manifest0, op, opArg,
                   opRet, written, Result, filesBefore, lastSave, absentTimes>>

NextDedup == AssignNext

SpecDedup == Init /\ [][NextDedup]_vars

(***************************************************************************)
(* SpecManifest: saves and loads of the generated manifest.                *)
(***************************************************************************)
\* moments before and after the epoch, none on a whole second
Times == {k * TicksPerSecond + 1 : k \in (0 - 1)..MaxSeconds} \cup {0 - TicksPerSecond - 1}
PackageNames == {GenManager_DefaultProtoPackageName, <<"a", "\"", "\\">>}
Manifests == [GeneratedTime : Times, ProtoPackageName : PackageNames]

\* what the uninitialized double GeneratedTime may hold
GarbageTimes == (0 - 1)..MaxSeconds

\* manifest texts that no save wrote
TextEmptyObject == <<"{", "}">>
TextOnlyTime == <<"{">> \o JsonQuoted(GeneratedTimeField) \o <<":", "1", "}">>
TextOnlyName ==
    <<"{">> \o JsonQuoted(ProtoPackageNameField) \o <<":">> \o JsonQuoted(<<"p">>) \o <<"}">>
TextTruncated == <<"{">> \o JsonQuoted(GeneratedTimeField) \o <<":">>
TextBlank == << >>
TextsWithoutTime == {TextEmptyObject, TextOnlyName}
TextsWithoutName == {TextEmptyObject, TextOnlyTime}
TextsMalformed == {TextTruncated, TextBlank}
SampleTexts == TextsWithoutTime \cup TextsWithoutName \cup TextsMalformed

InitManifest ==
    /\ InitCommon
    /\ files = {}
    /\ filesBefore = files
    /\ baseDir = ProcessDir
    /\ dirs \in SUBSET ManifestDirs
    /\ \E text \in {NoFile} \cup SampleTexts :
         /\ GenManager_IntermediateDir \notin dirs => text = NoFile
         /\ manifestFiles = [p \in ManifestPaths |->
                               IF p = GenManager_GeneratedManifestFilePath
                               THEN text ELSE NoFile]
    /\ manifest0 = manifestFiles[GenManager_GeneratedManifestFilePath]

SaveDone(Manifest, Filename, ds, r) ==
    /\ dirs' = ds
    /\ manifestFiles' = r.manifestFiles
    /\ Message' = r.Message
    /\ written' = r.written
    /\ op' = "Save"
    /\ opArg' = Filename
    /\ opRet' = r.ret
    /\ lastSave' = [lastSave EXCEPT ![Filename] =
                       IF GetPath(Filename) \in ds
                       THEN {[Manifest |-> Manifest, written |-> r.written]}
                       ELSE @]
    /\ UNCHANGED <<files, baseDir, pc, targets, genOk, bundle, idx, attempts, saveAttempted,
                   errorLog, runRet, manifest0, IllegalClassNameIndex,
                   TargetActorSameNameCounter, assigned, Result, filesBefore, absentTimes>>

\* SaveGeneratedManifest(Manifest, Filename, Message)
SaveManifestTo ==
    /\ pc = "idle"
    /\ \E Manifest \in Manifests, Filename \in ManifestPaths, bSaved \in BOOLEAN :
         SaveDone(Manifest, Filename, dirs,
                  SaveGeneratedManifest(Manifest, Filename, NoMessage, dirs, manifestFiles,
                                        bSaved))

\* SaveGeneratedManifest(Manifest, Message): the default path, its directory ensured
SaveManifestDefault ==
    /\ pc = "idle"
    /\ \E Manifest \in Manifests, bMade \in BOOLEAN, bSaved \in BOOLEAN :
         LET ds == EnsureReplicatorGeneratedIntermediateDir(dirs, bMade)
         IN  SaveDone(Manifest, GenManager_GeneratedManifestFilePath, ds,
                      SaveGeneratedManifest(Manifest, GenManager_GeneratedManifestFilePath,
                                            NoMessage, ds, manifestFiles, bSaved))

\* LoadLatestGeneratedManifest(Filename, Result, Message), and with the default path
LoadManifest ==
    /\ pc = "idle"
    /\ \E Filename \in ManifestPaths, garbage \in GarbageTimes :
         LET r == LoadLatestGeneratedManifest(Filename, NoMessage, manifestFiles, garbage)
         IN  /\ opArg' = Filename
             /\ opRet' = r.ret
             /\ Message' = r.Message
             /\ errorLog' = r.warnings
             /\ Result' = IF r.ret
                          THEN [GeneratedTime |-> r.GeneratedTime,
                                ProtoPackageName |-> r.ProtoPackageName]
                          ELSE UnsetManifest
             /\ absentTimes' =
                    IF r.ret /\ manifestFiles[Filename] \in TextsWithoutTime
                             /\ Cardinality(absentTimes) < 2
                    THEN absentTimes \cup {r.GeneratedTime}
                    ELSE absentTimes
    /\ op' = "Load"
    /\ UNCHANGED <<files, baseDir, dirs, manifestFiles, pc, targets, genOk, bundle, idx,
                   attempts, saveAttempted, runRet, manifest0, IllegalClassNameIndex,
                   TargetActorSameNameCounter, assigned, written, filesBefore, lastSave>>

NextManifest ==
    \/ SaveManifestTo
    \/ SaveManifestDefault
    \/ LoadManifest

SpecManifest == InitManifest /\ [][NextManifest]_vars

(***************************************************************************)
(* The claims.                                                             *)
(***************************************************************************)
AttemptedNames == [i \in 1..Len(attempts) |-> attempts[i].name]
SomeWriteFailed == \E i \in 1..Len(attempts) : ~attempts[i].ok

\* C1: a run returns success when assembly succeeded and the manifest file was saved,
\* whatever writes failed, and returns failure when the manifest could not be saved.
C1_RunFailsOnlyWithAssemblyOrManifest ==
    pc = "done" =>
        /\ (genOk /\ written) => runRet = TRUE
        /\ ~written => runRet = FALSE

\* C2: when Generate fails the run returns failure, attempts no artifact write and
\* leaves the persisted manifest as it was.
C2_FailedAssemblyProducesNothing ==
    (pc # "idle" /\ ~genOk) =>
        /\ attempts = << >>
        /\ manifestFiles[GenManager_GeneratedManifestFilePath] = manifest0
        /\ pc = "done" => runRet = FALSE

\* C3: SaveGeneratedManifest returns true exactly when the manifest file was written,
\* and false, with a message, exactly when the directory is missing or the write failed.
C3_SaveReportsItsOutcome ==
    op = "Save" =>
        /\ opRet = TRUE <=> written
        /\ opRet = FALSE => Message # NoMessage

\* C4: once the manifest save has been called, every artifact of the bundle has been
\* attempted, in the order of the statements, and none is attempted afterwards.
C4_ManifestSavedAfterAllWrites ==
    saveAttempted => AttemptedNames = ArtifactFiles(bundle)

C4_Witness ==
    /\ pc = "done"
    /\ saveAttempted
    /\ Len(bundle) >= 1
    /\ Len(attempts) = 7 + 3 * Len(bundle)
    /\ SomeWriteFailed

\* C5: whatever writes fail, the run attempts every artifact of the bundle exactly once
\* and the manifest save, and a failed write is recorded: the message or the log of the
\* run holds something other than what the manifest save puts there.
C5_WriteFailuresRecordedNotAborting ==
    pc = "done" =>
        /\ AttemptedNames = ArtifactFiles(bundle)
        /\ saveAttempted
        /\ SomeWriteFailed =>
              \/ Message \notin {NoMessage, DirMissingMessage, SaveFailedMessage}
              \/ \E i \in 1..Len(errorLog) :
                    errorLog[i] # "Failed to save the generated manifest file"

SameManifest(Manifest) ==
    /\ opRet = TRUE
    /\ ToUnixTimestamp(Result.GeneratedTime) = ToUnixTimestamp(Manifest.GeneratedTime)
    /\ Result.ProtoPackageName = Manifest.ProtoPackageName

C7_MissingFieldsLoadAsDefaults ==
    /\ Cardinality(absentTimes) <= 1
    /\ op = "Load" =>
          LET text == manifestFiles[opArg]
          IN  /\ text \in TextsWithoutTime \cup TextsWithoutName => opRet = TRUE
              /\ text \in TextsWithoutName => Result.ProtoPackageName = << >>
              /\ text \in TextsMalformed => opRet = FALSE

\* C8: in one run, whatever base names are submitted (duplicates, empty or illegal
\* names, names that look like a suffixed name), no generated identifier is returned
\* twice.
C8_GeneratedIdentifiersUnique ==
    \A i, j \in 1..Len(assigned) : i # j => assigned[i][2] # assigned[j][2]

\* the other half of C8: the first occurrence of a base name is returned unmodified
FirstOccurrenceUnmodified ==
    \A i \in 1..Len(assigned) :
        (\A j \in 1..(i - 1) : assigned[j][1] # assigned[i][1])
            => assigned[i][2] = assigned[i][1]

FilesOfClasses(ClassNames) ==
    {<<ReplicatorStorageDir, RemovedFileNames(ClassNames[i])[k]>> :
        i \in 1..Len(ClassNames), k \in 1..5}

\* C9: a removal deletes the five generated files of each listed class, whether they
\* exist or not, and no other file.
C9_RemovalDeletesExactlyTheFiveFiles ==
    op = "Remove" => files = filesBefore \ FilesOfClasses(opArg)

\* C10: the enumeration returns the names N with a file Channeld<N>Replicator.h in the
\* storage directory, and no name that has just been removed.
C10_EnumerationAndRemovalAgree ==
    /\ \A N \in {NameA, NameB, NameA \o <<"_", "1">>} :
          N \in GetGeneratedTargetClasses(files)
              <=> <<ReplicatorStorageDir, ReplicatorFileName(N, CodeGen_HeadFileExtension)>>
                     \in files
    /\ op = "Remove" =>
          \A i \in 1..Len(opArg) : opArg[i] \notin GetGeneratedTargetClasses(files)

====
